---- MODULE Spec2Model ----
(***************************************************************************)
(* Model of the REST resources of the online-school backend                *)
(* (src/courses/models.py, serializers.py, views.py): the relational store *)
(* (courses, lessons, assignments, enrollments, submissions, progress),    *)
(* the mutating handlers of CourseViewSet and SubmissionViewSet with the   *)
(* serializer validation they run, the saves of LessonSerializer, and the  *)
(* derived reads progress, free and q_courses_complex.                     *)
(***************************************************************************)
EXTENDS Integers, FiniteSets, Sequences, Bags, TLC

VARIABLES
    courses,      \* Course table: pk -> row
    courseSeq,    \* last primary key handed out by the Course table
    lessons,      \* Lesson table: pk -> row
    assignments,  \* Assignment table: pk -> row
    enrollments,  \* Enrollment table: bag of rows (rows carry no addressed pk)
    submissions,  \* Submission table: pk -> row
    inflight,     \* enroll requests between their existence check and their insert
    resp,         \* the last response sent: operation, caller, target, status, error keys
    progress,     \* Progress table: pk -> row
    lessonInflight, \* Lesson saves between the validator's check and their insert
    payload       \* the data of the last read response

vars == <<courses, courseSeq, lessons, assignments, enrollments, submissions, inflight, resp,
          progress, lessonInflight, payload>>

(***************************************************************************)
(* Bounds of the model.                                                    *)
(***************************************************************************)
\* max_score of the first fixture assignment; the second has one less
MaxScore == 2
\* number of Course rows that may ever be inserted (fixture included)
MaxCourses == 3
\* number of Lesson rows that may ever be stored (fixture included)
MaxLessons == 4
\* number of Lesson rows stored or in flight while creates run concurrently
MaxRaceLessons == 5
\* number of Lesson rows of the catalogs the progress percent is computed on
ProgressLessons == 3
\* number of enroll requests that may sit between check and insert
MaxInflight == 2

(***************************************************************************)
(* Identity: models.User with its role, and the anonymous caller.          *)
(***************************************************************************)
NoneVal == "<null>"

Anonymous == "anon"

Users == {"t1", "t2", "s1", "s2"}

\* the callers of the requests that address a submission, and of those that
\* create one
Graders == {"t1", "t2", "s1"}

Students == {"s1", "s2"}

role(u) == IF u \in {"t1", "t2"} THEN "teacher" ELSE "student"

is_authenticated(u) == u \in Users

\* AnonymousUser defines no is_teacher: reading it raises AttributeError.
has_is_teacher(u) == u \in Users

is_teacher(u) == role(u) = "teacher"

(***************************************************************************)
(* Schema: choices and defaults of the model fields.                       *)
(***************************************************************************)
level_choices == {"beginner", "intermediate", "advanced"}

category_choices == {"programming", "design", "marketing", "business"}

status_choices == {"pending", "checked", "late"}

SubmissionDefaultScore == 0

SubmissionDefaultStatus == "pending"

EnrollmentDefaultProgress == 0

(***************************************************************************)
(* Responses.                                                              *)
(***************************************************************************)
HTTP_200_OK == 200

HTTP_201_CREATED == 201

HTTP_204_NO_CONTENT == 204

HTTP_400_BAD_REQUEST == 400

HTTP_403_FORBIDDEN == 403

HTTP_500_SERVER_ERROR == 500

Response(op, u, pk, status, errors) ==
    [op |-> op, user |-> u, pk |-> pk, status |-> status, errors |-> errors]

NoResponse == Response("none", NoneVal, 0, 0, {})

(***************************************************************************)
(* Store helpers.                                                          *)
(***************************************************************************)
Restrict(f, D) == [x \in D |-> f[x]]

Has(body, field) == field \in DOMAIN body

\* submission.assignment.lesson.course
CourseOfAssignment(a) == lessons[assignments[a].lesson].course

CourseOfSubmission(pk) == CourseOfAssignment(submissions[pk].assignment)

\* Enrollment.objects.filter(student=student, course=course)
EnrollmentRows(student, course) ==
    {e \in BagToSet(enrollments) : e.student = student /\ e.course = course}

\* mutant: the filter without the course
EnrollmentExistsAnyCourse(student, course) ==
    \E e \in BagToSet(enrollments) : e.student = student

EnrollmentExists(student, course) == EnrollmentRows(student, course) # {}

(***************************************************************************)
(* Fixture: the catalog and the submissions present when the API starts.   *)
(* Lessons, assignments and submissions cannot be inserted through the     *)
(* REST surface; they are loaded through the back office.                  *)
(***************************************************************************)
CourseRow(teacher, price, duration, level, category, published) ==
    [teacher |-> teacher, price |-> price, duration |-> duration,
     level |-> level, category |-> category, published |-> published]

SubmissionRow(assignment, student, answer, score, comment, status) ==
    [assignment |-> assignment, student |-> student, answer |-> answer,
     score |-> score, teacher_comment |-> comment, status |-> status]

\* a Progress row; completed defaults to False
ProgressRow(student, lesson, completed) ==
    [student |-> student, lesson |-> lesson, completed |-> completed]

EnrollmentRow(student, course) ==
    [student |-> student, course |-> course,
     progress |-> EnrollmentDefaultProgress, completed_at |-> NoneVal]

(***************************************************************************)
(* SubmissionSerializer: request bodies and validation.                    *)
(* A body is a function from the writable fields it carries to values;     *)
(* the read-only fields (id, student, submitted_at, status) are dropped    *)
(* from the input by the serializer and are not part of a body.  A score   *)
(* value is [null, v]: JSON null or the integer v.                         *)
(***************************************************************************)
SubmissionWritableFields == {"assignment", "answer", "score", "teacher_comment"}

SubmissionRequiredFields == {"assignment", "answer"}

ScoreValue(null, v) == [null |-> null, v |-> v]

\* primary keys a body may name for its assignment
AssignmentPks == {1, 2}

Answers == {"x", "y"}

Comments == {"good"}

ScoreValues == {ScoreValue(TRUE, 0)} \cup {ScoreValue(FALSE, n) : n \in -1 .. MaxScore + 1}

BodiesOver(fields, assignmentVals, answerVals, scoreVals, commentVals) ==
    {Restrict(b, D) :
        b \in [assignment : assignmentVals, answer : answerVals,
               score : scoreVals, teacher_comment : commentVals],
        D \in SUBSET fields}

\* bodies of the grade requests: every subset of assignment, score and
\* teacher_comment, every score from below 0 to above the largest max_score
GradeBodies ==
    BodiesOver({"assignment", "score", "teacher_comment"},
               AssignmentPks, {"x"}, ScoreValues, Comments)

\* bodies of the other submission requests
SubmissionBodies ==
    BodiesOver({"assignment", "answer", "score"}, {2}, {"x"},
               {ScoreValue(FALSE, MaxScore - 1), ScoreValue(FALSE, MaxScore + 1)},
               Comments)

\* validate_score reads self.instance.assignment (AttributeError when the
\* serializer has no instance) and compares value with max_score (TypeError
\* when value is None).  The field itself (PositiveIntegerField, null=True)
\* lets null through and rejects negatives before validate_score is called.
ScoreFieldRejects(body) ==
    Has(body, "score") /\ ~body.score.null /\ body.score.v < 0

ValidateScoreCalled(body) == Has(body, "score") /\ ~ScoreFieldRejects(body)

ValidateScoreCrashes(instance, body) ==
    ValidateScoreCalled(body) /\ (instance = 0 \/ body.score.null)

\* mutant: the comparison with max_score left out
validate_scoreNoUpperBound(instance, value) == value >= 0

validate_score(instance, value) ==
    LET assignment == submissions[instance].assignment
        max_score  == assignments[assignment].max_score
    IN  IF value > max_score THEN FALSE
        ELSE IF value < 0 THEN FALSE
        ELSE TRUE

\* keys of the field-level error dictionary of to_internal_value
SubmissionFieldErrors(instance, body, partial) ==
    {f \in SubmissionRequiredFields : ~partial /\ ~Has(body, f)}
    \cup {f \in {"assignment"} :
            Has(body, "assignment") /\ body.assignment \notin DOMAIN assignments}
    \cup {f \in {"score"} : ScoreFieldRejects(body)}
    \cup {f \in {"score"} :
            /\ ValidateScoreCalled(body)
            /\ ~ValidateScoreCrashes(instance, body)
            /\ ~validate_score(instance, body.score.v)}

\* SubmissionSerializer.validate: the enrollment check of a create
SubmissionValidate(instance, body, user) ==
    IF instance # 0 THEN {}
    ELSE IF ~Has(body, "assignment") THEN {}
    ELSE IF ~EnrollmentExists(user, CourseOfAssignment(body.assignment))
         THEN {"assignment"}
    ELSE {}

\* is_valid(raise_exception=True): the status the request ends with when
\* validation stops it, 0 when the data is valid.
SubmissionIsValid(instance, body, partial, user) ==
    IF ValidateScoreCrashes(instance, body)
        THEN [status |-> HTTP_500_SERVER_ERROR, errors |-> {"exception"}]
    ELSE IF SubmissionFieldErrors(instance, body, partial) # {}
        THEN [status |-> HTTP_400_BAD_REQUEST,
              errors |-> SubmissionFieldErrors(instance, body, partial)]
    ELSE IF SubmissionValidate(instance, body, user) # {}
        THEN [status |-> HTTP_400_BAD_REQUEST,
              errors |-> SubmissionValidate(instance, body, user)]
    ELSE [status |-> 0, errors |-> {}]

\* validated_data: the writable fields of the body as stored values
ValidatedSubmission(body) ==
    [f \in DOMAIN body |->
        IF f = "score" THEN body.score.v ELSE body[f]]

\* ModelSerializer.update: setattr of every validated field, then save()
UpdatedSubmission(row, data) ==
    [f \in DOMAIN row |-> IF f \in DOMAIN data THEN data[f] ELSE row[f]]

\* ModelSerializer.create: the row handed to the INSERT; a column the
\* validated data does not carry takes its model default, and student has none.
CreatedSubmission(data) ==
    SubmissionRow(data.assignment, NoneVal, data.answer,
                  IF "score" \in DOMAIN data THEN data.score ELSE SubmissionDefaultScore,
                  IF "teacher_comment" \in DOMAIN data THEN data.teacher_comment ELSE NoneVal,
                  SubmissionDefaultStatus)

\* NOT NULL constraint of Submission.student
SubmissionInsertOk(row) == row.student # NoneVal

NextSubmissionPk == IF DOMAIN submissions = {} THEN 1
                    ELSE (CHOOSE m \in DOMAIN submissions :
                             \A k \in DOMAIN submissions : k <= m) + 1

Init ==
    /\ courses = (1 :> CourseRow("t1", 1000, 10, "beginner", "programming", TRUE))
              @@ (2 :> CourseRow("t2", 6000, 4, "advanced", "design", FALSE))
    /\ courseSeq = 2
    /\ lessons = (1 :> [course |-> 1, serial_number |-> 1])
              @@ (2 :> [course |-> 2, serial_number |-> 1])
    /\ assignments = (1 :> [lesson |-> 1, max_score |-> MaxScore])
                  @@ (2 :> [lesson |-> 2, max_score |-> MaxScore - 1])
    /\ enrollments = SetToBag({EnrollmentRow("s1", 1), EnrollmentRow("s1", 2)})
    /\ submissions =
           (1 :> SubmissionRow(1, "s1", "x", SubmissionDefaultScore, NoneVal,
                               SubmissionDefaultStatus))
        @@ (2 :> SubmissionRow(2, "s1", "x", SubmissionDefaultScore, NoneVal,
                               SubmissionDefaultStatus))
    /\ inflight = EmptyBag
    /\ resp = NoResponse
    /\ progress = (1 :> ProgressRow("s1", 1, TRUE))
               @@ (2 :> ProgressRow("s1", 2, FALSE))
               @@ (3 :> ProgressRow("s2", 1, FALSE))
    /\ lessonInflight = EmptyBag
    /\ payload = NoneVal

(***************************************************************************)
(* SubmissionViewSet: the handlers.                                        *)
(***************************************************************************)
SubmissionFrame == UNCHANGED <<courses, courseSeq, lessons, assignments, enrollments, inflight,
                               progress, lessonInflight, payload>>

\* POST /api/submissions/ (ModelViewSet.create; perform_create is not
\* overridden, so save() receives no student)
SubmissionCreate(u, body) ==
    LET v   == SubmissionIsValid(0, body, FALSE, u)
        row == CreatedSubmission(ValidatedSubmission(body))
    IN  /\ SubmissionFrame
        /\ IF v.status # 0
             THEN /\ resp' = Response("create", u, 0, v.status, v.errors)
                  /\ UNCHANGED submissions
           ELSE IF ~SubmissionInsertOk(row)
             THEN /\ resp' = Response("create", u, 0, HTTP_500_SERVER_ERROR, {"exception"})
                  /\ UNCHANGED submissions
           ELSE /\ submissions' = (NextSubmissionPk :> row) @@ submissions
                /\ resp' = Response("create", u, NextSubmissionPk, HTTP_201_CREATED, {})

\* the shared body of ModelViewSet.update (PUT) and partial_update (PATCH)
SubmissionGenericUpdate(op, u, pk, body, partial) ==
    LET v == SubmissionIsValid(pk, body, partial, u)
    IN  /\ pk \in DOMAIN submissions
        /\ SubmissionFrame
        /\ IF v.status # 0
             THEN /\ resp' = Response(op, u, pk, v.status, v.errors)
                  /\ UNCHANGED submissions
           ELSE /\ submissions' = [submissions EXCEPT
                       ![pk] = UpdatedSubmission(@, ValidatedSubmission(body))]
                /\ resp' = Response(op, u, pk, HTTP_200_OK, {})

\* PUT /api/submissions/{pk}/
SubmissionUpdate(u, pk, body) == SubmissionGenericUpdate("update", u, pk, body, FALSE)

\* PATCH /api/submissions/{pk}/
SubmissionPartialUpdate(u, pk, body) ==
    SubmissionGenericUpdate("partial_update", u, pk, body, TRUE)

\* DELETE /api/submissions/{pk}/
SubmissionDestroy(u, pk) ==
    /\ pk \in DOMAIN submissions
    /\ SubmissionFrame
    /\ submissions' = Restrict(submissions, DOMAIN submissions \ {pk})
    /\ resp' = Response("destroy", u, pk, HTTP_204_NO_CONTENT, {})

\* mutant: any teacher may grade
GradeForbiddenAnyTeacher(u, pk) == ~is_teacher(u)

\* the ownership test of grade
GradeForbidden(u, pk) == courses[CourseOfSubmission(pk)].teacher # u

\* mutant: save() without the status
GradedSubmissionStatusKept(row, data) == UpdatedSubmission(row, data)

\* serializer.save(status="checked"): the validated fields and the status
GradedSubmission(row, data) == [UpdatedSubmission(row, data) EXCEPT !.status = "checked"]

\* PATCH /api/submissions/{pk}/grade/
SubmissionGrade(u, pk, body) ==
    LET v == SubmissionIsValid(pk, body, TRUE, u)
    IN  /\ pk \in DOMAIN submissions
        /\ SubmissionFrame
        /\ IF GradeForbidden(u, pk)
             THEN /\ resp' = Response("grade", u, pk, HTTP_403_FORBIDDEN, {"detail"})
                  /\ UNCHANGED submissions
           ELSE IF v.status # 0
             THEN /\ resp' = Response("grade", u, pk, v.status, v.errors)
                  /\ UNCHANGED submissions
           ELSE /\ submissions' = [submissions EXCEPT
                       ![pk] = GradedSubmission(@, ValidatedSubmission(body))]
                /\ resp' = Response("grade", u, pk, HTTP_200_OK, {})

(***************************************************************************)
(* CourseSerializer: request bodies and validation.                        *)
(***************************************************************************)
CourseWritableFields == {"price", "duration", "level", "category", "published"}

CourseBody(price, duration, level, category, published) ==
    [price |-> price, duration |-> duration, level |-> level,
     category |-> category, published |-> published]

\* data.get(field, default)
Get(body, field, default) == IF Has(body, field) THEN body[field] ELSE default

validate_level(value) == value \in {"beginner", "intermediate", "advanced"}

validate_category(value) == value \in {"programming", "design", "marketing", "business"}

\* keys of the field-level error dictionary: a required field that is
\* missing, a PositiveIntegerField below 0, a value outside the choices
CourseFieldErrors(body, partial) ==
    {f \in CourseWritableFields : ~partial /\ ~Has(body, f)}
    \cup {f \in {"price", "duration"} : Has(body, f) /\ body[f] < 0}
    \cup {f \in {"level"} :
            Has(body, f) /\ (body[f] \notin level_choices \/ ~validate_level(body[f]))}
    \cup {f \in {"category"} :
            Has(body, f) /\ (body[f] \notin category_choices \/ ~validate_category(body[f]))}

\* mutant: validate does not look at the price
CourseValidateDurationOnly(body) ==
    IF Get(body, "duration", 1) <= 0 THEN {"duration"} ELSE {}

\* CourseSerializer.validate
CourseValidate(body) ==
    IF Get(body, "price", 1) <= 0 THEN {"price"}
    ELSE IF Get(body, "duration", 1) <= 0 THEN {"duration"}
    ELSE {}

CourseErrors(body, partial) ==
    IF CourseFieldErrors(body, partial) # {} THEN CourseFieldErrors(body, partial)
    ELSE CourseValidate(body)

\* ModelSerializer.update on a Course: teacher is read-only
UpdatedCourse(row, body) ==
    [f \in DOMAIN row |-> IF f \in DOMAIN body THEN body[f] ELSE row[f]]

(***************************************************************************)
(* CourseViewSet: create, update, partial_update, destroy.                 *)
(***************************************************************************)
\* perform_create: the teacher handed to save(); the first teacher (or the
\* first user) stands in for a caller that is not authenticated
FirstTeacher == "t1"

PerformCreateTeacher(u) == IF is_authenticated(u) THEN u ELSE FirstTeacher

\* CourseSerializer.create: validated_data["teacher"] = user replaces the
\* teacher that save() passed in
CreatedCourse(u, saveTeacher, body) ==
    [CourseRow(saveTeacher, body.price, body.duration, body.level,
               body.category, body.published) EXCEPT !.teacher = u]

\* POST /api/courses/
CourseCreate(u, body) ==
    LET errors == CourseErrors(body, FALSE)
        pk     == courseSeq + 1
    IN  /\ courseSeq < MaxCourses
        /\ UNCHANGED <<lessons, assignments, enrollments, submissions, inflight,
                       progress, lessonInflight, payload>>
        /\ IF errors # {}
             THEN /\ resp' = Response("create_course", u, 0, HTTP_400_BAD_REQUEST, errors)
                  /\ UNCHANGED <<courses, courseSeq>>
           ELSE IF ~has_is_teacher(u)
             THEN /\ resp' = Response("create_course", u, 0, HTTP_500_SERVER_ERROR, {"exception"})
                  /\ UNCHANGED <<courses, courseSeq>>
           ELSE IF ~is_teacher(u)
             THEN /\ resp' = Response("create_course", u, 0, HTTP_400_BAD_REQUEST, {"teachers_only"})
                  /\ UNCHANGED <<courses, courseSeq>>
           ELSE /\ courses' = (pk :> CreatedCourse(u, PerformCreateTeacher(u), body)) @@ courses
                /\ courseSeq' = pk
                /\ resp' = Response("create_course", u, pk, HTTP_201_CREATED, {})

\* mutant: any teacher may write any course
CourseForbiddenAnyTeacher(u, pk) == ~(u \in Users /\ is_teacher(u))

\* course.teacher != request.user
CourseForbidden(u, pk) == courses[pk].teacher # u

\* the shared body of update (PUT) and partial_update (PATCH)
CourseWrite(op, u, pk, body, partial) ==
    LET errors == CourseErrors(body, partial)
    IN  /\ pk \in DOMAIN courses
        /\ UNCHANGED <<courseSeq, lessons, assignments, enrollments, submissions, inflight,
                       progress, lessonInflight, payload>>
        /\ IF CourseForbidden(u, pk)
             THEN /\ resp' = Response(op, u, pk, HTTP_403_FORBIDDEN, {"detail"})
                  /\ UNCHANGED courses
           ELSE IF errors # {}
             THEN /\ resp' = Response(op, u, pk, HTTP_400_BAD_REQUEST, errors)
                  /\ UNCHANGED courses
           ELSE /\ courses' = [courses EXCEPT ![pk] = UpdatedCourse(@, body)]
                /\ resp' = Response(op, u, pk, HTTP_200_OK, {})

\* PUT /api/courses/{pk}/
CourseUpdate(u, pk, body) == CourseWrite("update_course", u, pk, body, FALSE)

\* PATCH /api/courses/{pk}/
CoursePartialUpdate(u, pk, body) == CourseWrite("partial_update_course", u, pk, body, TRUE)

\* on_delete=models.CASCADE: the rows that go with a Course
LessonsOfCourse(c) == {l \in DOMAIN lessons : lessons[l].course = c}

AssignmentsOfCourse(c) == {a \in DOMAIN assignments : assignments[a].lesson \in LessonsOfCourse(c)}

SubmissionsOfCourse(c) ==
    {s \in DOMAIN submissions : submissions[s].assignment \in AssignmentsOfCourse(c)}

\* mutant: Progress rows are not deleted with their Lesson
ProgressOfCourseNone(c) == {}

ProgressOfCourse(c) == {p \in DOMAIN progress : progress[p].lesson \in LessonsOfCourse(c)}

EnrollmentsOutside(c) ==
    LET kept == {e \in BagToSet(enrollments) : e.course # c}
    IN  [e \in kept |-> CopiesIn(e, enrollments)]

\* course.delete()
CourseDelete(pk) ==
    /\ courses' = Restrict(courses, DOMAIN courses \ {pk})
    /\ lessons' = Restrict(lessons, DOMAIN lessons \ LessonsOfCourse(pk))
    /\ assignments' = Restrict(assignments, DOMAIN assignments \ AssignmentsOfCourse(pk))
    /\ submissions' = Restrict(submissions, DOMAIN submissions \ SubmissionsOfCourse(pk))
    /\ enrollments' = EnrollmentsOutside(pk)
    /\ progress' = Restrict(progress, DOMAIN progress \ ProgressOfCourse(pk))

\* DELETE /api/courses/{pk}/
CourseDestroy(u, pk) ==
    /\ pk \in DOMAIN courses
    /\ UNCHANGED <<courseSeq, inflight, lessonInflight, payload>>
    /\ IF CourseForbidden(u, pk)
         THEN /\ resp' = Response("destroy_course", u, pk, HTTP_403_FORBIDDEN, {"detail"})
              /\ UNCHANGED <<courses, lessons, assignments, enrollments, submissions, progress>>
         ELSE /\ CourseDelete(pk)
              /\ resp' = Response("destroy_course", u, pk, HTTP_204_NO_CONTENT, {})

(***************************************************************************)
(* CourseViewSet.enroll.                                                   *)
(***************************************************************************)
EnrollFrame == UNCHANGED <<courses, courseSeq, lessons, assignments, submissions,
                           progress, lessonInflight, payload>>

\* mutant: no unique constraint on the table
EnrollmentInsertUnchecked(row) == TRUE

\* unique_together = ('student', 'course'): the INSERT is refused
\* (IntegrityError) when a row with the pair is already stored
EnrollmentInsertOk(row) == ~EnrollmentExists(row.student, row.course)

\* Enrollment.objects.create(student=student, course=course) and the response
EnrollInsert(u, c) ==
    IF EnrollmentInsertOk(EnrollmentRow(u, c))
      THEN /\ enrollments' = enrollments (+) SetToBag({EnrollmentRow(u, c)})
           /\ resp' = Response("enroll", u, c, HTTP_200_OK, {})
      ELSE /\ UNCHANGED enrollments
           /\ resp' = Response("enroll", u, c, HTTP_500_SERVER_ERROR, {"exception"})

\* the existence check of enroll and its rejection
EnrollRejected(u, c) ==
    /\ EnrollmentExists(u, c)
    /\ resp' = Response("enroll", u, c, HTTP_400_BAD_REQUEST, {"detail"})
    /\ UNCHANGED enrollments

\* POST /api/courses/{pk}/enroll/ run without interruption
Enroll(u, c) ==
    /\ c \in DOMAIN courses
    /\ EnrollFrame
    /\ UNCHANGED inflight
    /\ \/ EnrollRejected(u, c)
       \/ ~EnrollmentExists(u, c) /\ EnrollInsert(u, c)

\* the same handler as two database accesses: requests run in parallel
\* workers, and another request may run between the check and the insert
EnrollCheck(u, c) ==
    /\ c \in DOMAIN courses
    /\ EnrollFrame
    /\ \/ EnrollRejected(u, c) /\ UNCHANGED inflight
       \/ /\ ~EnrollmentExists(u, c)
          /\ BagCardinality(inflight) < MaxInflight
          /\ inflight' = inflight (+) SetToBag({[user |-> u, course |-> c]})
          /\ UNCHANGED <<enrollments, resp>>

EnrollCommit(r) ==
    /\ BagIn(r, inflight)
    /\ EnrollFrame
    /\ inflight' = inflight (-) SetToBag({r})
    /\ EnrollInsert(r.user, r.course)

(***************************************************************************)
(* LessonSerializer: the validator and the saves that pass through it.     *)
(* Of the Lesson fields the model keeps course and serial_number.          *)
(***************************************************************************)
LessonFrame == UNCHANGED <<courses, courseSeq, assignments, enrollments, submissions,
                           inflight, progress, payload>>

LessonWritableFields == {"course", "serial_number"}

LessonCoursePks == {1, 2}

\* PositiveIntegerField admits 0
SerialNumbers == {0, 1, 2}

LessonBodies ==
    {b \in UNION {[D -> LessonCoursePks \cup SerialNumbers] : D \in SUBSET LessonWritableFields} :
        /\ Has(b, "course") => b.course \in LessonCoursePks
        /\ Has(b, "serial_number") => b.serial_number \in SerialNumbers}

\* field-level validation: required fields, the course must exist, the
\* serial number is not negative
LessonFieldErrors(body, partial) ==
    {f \in LessonWritableFields : ~partial /\ ~Has(body, f)}
        \cup {f \in {"course"} : Has(body, f) /\ body.course \notin DOMAIN courses}
        \cup {f \in {"serial_number"} : Has(body, f) /\ body.serial_number < 0}

\* data.get(...) or self.instance.<field> reads self.instance when the value
\* is missing or falsy (0); without an instance that read raises
LessonValidateCrashes(instance, body) ==
    /\ instance = 0
    /\ \/ ~Has(body, "course")
       \/ ~Has(body, "serial_number")
       \/ body.serial_number = 0

\* course = data.get("course") or self.instance.course
LessonValidateCourse(instance, body) ==
    IF Has(body, "course") THEN body.course ELSE lessons[instance].course

\* serial = data.get("serial_number") or self.instance.serial_number
LessonValidateSerial(instance, body) ==
    IF Has(body, "serial_number") /\ body.serial_number # 0
      THEN body.serial_number
      ELSE lessons[instance].serial_number

\* Lesson.objects.filter(course=, serial_number=).exclude(id=).exists()
LessonExists(course, serial, exclude) ==
    \E l \in DOMAIN lessons \ {exclude} :
        lessons[l].course = course /\ lessons[l].serial_number = serial

\* LessonSerializer.validate: the error keys it raises
LessonValidate(instance, body) ==
    IF LessonExists(LessonValidateCourse(instance, body),
                    LessonValidateSerial(instance, body), instance)
      THEN {"serial_number"}
      ELSE {}

\* is_valid(): [status, errors]; status 0 is a valid body
LessonIsValid(instance, body, partial) ==
    IF LessonFieldErrors(body, partial) # {}
      THEN [status |-> HTTP_400_BAD_REQUEST, errors |-> LessonFieldErrors(body, partial)]
    ELSE IF LessonValidateCrashes(instance, body)
      THEN [status |-> HTTP_500_SERVER_ERROR, errors |-> {"exception"}]
    ELSE IF LessonValidate(instance, body) # {}
      THEN [status |-> HTTP_400_BAD_REQUEST, errors |-> LessonValidate(instance, body)]
    ELSE [status |-> 0, errors |-> {}]

\* serializer.update: every validated field is written
UpdatedLesson(row, body) ==
    [f \in DOMAIN row |-> IF Has(body, f) THEN body[f] ELSE row[f]]

\* serializer.create
CreatedLesson(body) == [course |-> body.course, serial_number |-> body.serial_number]

\* Lesson.Meta declares an ordering only: the table refuses no row
LessonInsertOk(row) == TRUE

NextLessonPk == IF DOMAIN lessons = {} THEN 1
                ELSE (CHOOSE m \in DOMAIN lessons : \A k \in DOMAIN lessons : k <= m) + 1

\* serializer.is_valid() and serializer.save() of a new Lesson, in one step
LessonCreate(body) ==
    LET v == LessonIsValid(0, body, FALSE)
    IN  /\ Cardinality(DOMAIN lessons) < MaxLessons
        /\ LessonFrame
        /\ UNCHANGED lessonInflight
        /\ IF v.status # 0
             THEN /\ resp' = Response("create_lesson", NoneVal, 0, v.status, v.errors)
                  /\ UNCHANGED lessons
             ELSE /\ lessons' = (NextLessonPk :> CreatedLesson(body)) @@ lessons
                  /\ resp' = Response("create_lesson", NoneVal, NextLessonPk,
                                      HTTP_201_CREATED, {})

\* the shared body of a full and a partial update of a stored Lesson
LessonWrite(op, pk, body, partial) ==
    LET v == LessonIsValid(pk, body, partial)
    IN  /\ pk \in DOMAIN lessons
        /\ LessonFrame
        /\ UNCHANGED lessonInflight
        /\ IF v.status # 0
             THEN /\ resp' = Response(op, NoneVal, pk, v.status, v.errors)
                  /\ UNCHANGED lessons
             ELSE /\ lessons' = [lessons EXCEPT ![pk] = UpdatedLesson(@, body)]
                  /\ resp' = Response(op, NoneVal, pk, HTTP_200_OK, {})

LessonUpdate(pk, body) == LessonWrite("update_lesson", pk, body, FALSE)

LessonPartialUpdate(pk, body) == LessonWrite("partial_update_lesson", pk, body, TRUE)

\* first half of a concurrent create: is_valid() with its existence check
LessonCreateCheck(body) ==
    LET v == LessonIsValid(0, body, FALSE)
    IN  /\ Cardinality(DOMAIN lessons) + BagCardinality(lessonInflight) < MaxRaceLessons
        /\ BagCardinality(lessonInflight) < MaxInflight
        /\ LessonFrame
        /\ UNCHANGED lessons
        /\ IF v.status # 0
             THEN /\ resp' = Response("create_lesson", NoneVal, 0, v.status, v.errors)
                  /\ UNCHANGED lessonInflight
             ELSE /\ lessonInflight' = lessonInflight (+) SetToBag({body})
                  /\ UNCHANGED resp

\* second half: save() inserts the validated row
LessonCreateCommit(body) ==
    /\ BagIn(body, lessonInflight)
    /\ LessonFrame
    /\ lessonInflight' = lessonInflight (-) SetToBag({body})
    /\ IF LessonInsertOk(CreatedLesson(body))
         THEN /\ lessons' = (NextLessonPk :> CreatedLesson(body)) @@ lessons
              /\ resp' = Response("create_lesson", NoneVal, NextLessonPk, HTTP_201_CREATED, {})
         ELSE /\ UNCHANGED lessons
              /\ resp' = Response("create_lesson", NoneVal, 0, HTTP_500_SERVER_ERROR,
                                  {"exception"})

(***************************************************************************)
(* CourseViewSet.progress: the derived course progress of the caller.      *)
(***************************************************************************)
ReadFrame == UNCHANGED <<courses, courseSeq, lessons, assignments, enrollments, submissions,
                         inflight, progress, lessonInflight>>

\* round(percent, 2) keeps two decimals: the model counts hundredths of a percent
Hundredths == 100

\* course.lessons.count()
LessonsCount(c) == Cardinality(LessonsOfCourse(c))

\* mutant: completed rows of every student are counted
CompletedCountAnyStudent(student, c) ==
    Cardinality({p \in DOMAIN progress :
                    /\ lessons[progress[p].lesson].course = c
                    /\ progress[p].completed})

\* Progress.objects.filter(student=, lesson__course=, completed=True).count()
CompletedCount(student, c) ==
    Cardinality({p \in DOMAIN progress :
                    /\ progress[p].student = student
                    /\ lessons[progress[p].lesson].course = c
                    /\ progress[p].completed})

\* round(): num/den to the nearest integer, a tie to the even one
RoundHalfEven(num, den) ==
    LET q == num \div den
        r == num % den
    IN  IF 2 * r > den \/ (2 * r = den /\ q % 2 = 1) THEN q + 1 ELSE q

\* round(completed_count / lessons_count * 100, 2) if lessons_count > 0 else 0,
\* in hundredths of a percent
Percent(completed_count, lessons_count) ==
    IF lessons_count > 0
      THEN RoundHalfEven(completed_count * 100 * Hundredths, lessons_count)
      ELSE 0

\* GET /api/courses/{pk}/progress/
CourseProgress(u, pk) ==
    /\ pk \in DOMAIN courses
    /\ ReadFrame
    /\ resp' = Response("progress", u, pk, HTTP_200_OK, {})
    /\ payload' = [course |-> pk,
                   progress |-> Percent(CompletedCount(u, pk), LessonsCount(pk)),
                   completed_lessons |-> CompletedCount(u, pk),
                   total_lessons |-> LessonsCount(pk)]

\* the primary key of the Progress row of a (student, lesson) pair in a catalog
ProgressPk(student, lesson) ==
    IF student = "s1" THEN lesson ELSE ProgressLessons + lesson

\* a catalog of ProgressLessons lessons spread over the two courses, with at
\* most one Progress row per (student, lesson)
InitProgress ==
    /\ courses = (1 :> CourseRow("t1", 1000, 10, "beginner", "programming", TRUE))
              @@ (2 :> CourseRow("t2", 6000, 4, "advanced", "design", FALSE))
    /\ courseSeq = 2
    /\ \E course \in [1..ProgressLessons -> {1, 2}] :
          lessons = [l \in 1..ProgressLessons |->
                        [course |-> course[l], serial_number |-> l]]
    /\ assignments = (1 :> [lesson |-> 1, max_score |-> MaxScore])
    /\ enrollments = SetToBag({EnrollmentRow("s1", 1), EnrollmentRow("s1", 2)})
    /\ submissions = (1 :> SubmissionRow(1, "s1", "x", SubmissionDefaultScore, NoneVal,
                                         SubmissionDefaultStatus))
    /\ inflight = EmptyBag
    /\ resp = NoResponse
    /\ \E mark \in [Students \X (1..ProgressLessons) -> {"none", "open", "done"}] :
          progress = [pk \in {ProgressPk(k[1], k[2]) :
                                 k \in {x \in Students \X (1..ProgressLessons) :
                                           mark[x] # "none"}} |->
                         LET k == CHOOSE x \in Students \X (1..ProgressLessons) :
                                      ProgressPk(x[1], x[2]) = pk
                         IN  ProgressRow(k[1], k[2], mark[k] = "done")]
    /\ lessonInflight = EmptyBag
    /\ payload = NoneVal

(***************************************************************************)
(* CourseViewSet.q_courses_complex and CourseViewSet.free.                 *)
(***************************************************************************)
\* price__lte=5000
PriceLimit == 5000

\* students_count__gt=100
PopularThreshold == 100

\* mutant: the enrollments of every course are counted
StudentsCountAllCourses(c) == BagCardinality(enrollments)

\* annotate(students_count=Count("enrollments"))
StudentsCount(c) ==
    BagCardinality([e \in {x \in BagToSet(enrollments) : x.course = c} |->
                       CopiesIn(e, enrollments)])

\* the filter of q_courses_complex
QCoursesComplexFilter ==
    {c \in DOMAIN courses :
        /\ \/ /\ courses[c].level = "beginner"
              /\ courses[c].category = "programming"
              /\ courses[c].price <= PriceLimit
           \/ StudentsCount(c) > PopularThreshold
        /\ courses[c].published = TRUE
        /\ ~(courses[c].price = 0)}

\* GET /api/courses/q_courses_complex/
q_courses_complex(u) ==
    /\ ReadFrame
    /\ resp' = Response("q_courses_complex", u, 0, HTTP_200_OK, {})
    /\ payload' = QCoursesComplexFilter

\* GET /api/courses/free/
free(u) ==
    /\ ReadFrame
    /\ resp' = Response("free", u, 0, HTTP_200_OK, {})
    /\ payload' = {c \in DOMAIN courses : courses[c].price = 0}

\* the students of a catalog large enough to pass the popularity threshold
QueryStudent(i) == "u" \o ToString(i)

QueryPrices == {0, 1, PriceLimit, PriceLimit + 1}

QueryCounts == {0, PopularThreshold, PopularThreshold + 1}

\* catalogs of two courses: the first takes every level, category, price at
\* and around the limits and publication flag, and each course has no
\* enrollment or a number of them at or above the threshold
InitQuery ==
    /\ \E level \in level_choices, category \in category_choices,
          price \in QueryPrices, published \in BOOLEAN :
          courses = (1 :> CourseRow("t1", price, 10, level, category, published))
                 @@ (2 :> CourseRow("t2", 6000, 4, "advanced", "design", FALSE))
    /\ courseSeq = 2
    /\ lessons = (1 :> [course |-> 1, serial_number |-> 1])
              @@ (2 :> [course |-> 2, serial_number |-> 1])
    /\ assignments = (1 :> [lesson |-> 1, max_score |-> MaxScore])
    /\ \E n1 \in QueryCounts, n2 \in QueryCounts :
          enrollments = SetToBag({EnrollmentRow(QueryStudent(i), 1) : i \in 1..n1}
                                 \cup {EnrollmentRow(QueryStudent(i), 2) : i \in 1..n2})
    /\ submissions = << >>
    /\ inflight = EmptyBag
    /\ resp = NoResponse
    /\ progress = << >>
    /\ lessonInflight = EmptyBag
    /\ payload = NoneVal

(***************************************************************************)
(* Course writes over a catalog that holds a free course.                  *)
(***************************************************************************)
\* full bodies: a valid one and one per constraint broken; partial bodies
\* that carry one field, valid or not
ValidationBodies ==
    {CourseBody(2000, 5, "intermediate", "business", TRUE),
     CourseBody(0, 5, "intermediate", "business", TRUE),
     CourseBody(2000, 0, "intermediate", "business", TRUE),
     CourseBody(2000, 5, "expert", "business", TRUE),
     CourseBody(2000, 5, "intermediate", "cooking", TRUE),
     [price |-> 0], [price |-> -1], [duration |-> 0],
     [level |-> "expert"], [category |-> "cooking"], [published |-> TRUE]}

ValidationCallers == {"t1", "t2"}

\* the second course is free or not: Course.price admits 0 and the back
\* office stores it unchecked
InitValidation ==
    /\ \E price \in {0, 6000} :
          courses = (1 :> CourseRow("t1", 1000, 10, "beginner", "programming", TRUE))
                 @@ (2 :> CourseRow("t2", price, 4, "advanced", "design", FALSE))
    /\ courseSeq = 2
    /\ lessons = (1 :> [course |-> 1, serial_number |-> 1])
              @@ (2 :> [course |-> 2, serial_number |-> 1])
    /\ assignments = (1 :> [lesson |-> 1, max_score |-> MaxScore])
    /\ enrollments = SetToBag({EnrollmentRow("s1", 1), EnrollmentRow("s1", 2)})
    /\ submissions = << >>
    /\ inflight = EmptyBag
    /\ resp = NoResponse
    /\ progress = << >>
    /\ lessonInflight = EmptyBag
    /\ payload = NoneVal

(***************************************************************************)
(* Specifications.                                                         *)
(***************************************************************************)
\* the submission resource, with sequential enrolls
NextSubmission ==
    \/ \E u \in Students, b \in SubmissionBodies : SubmissionCreate(u, b)
    \/ \E u \in Graders, pk \in DOMAIN submissions, b \in SubmissionBodies :
          SubmissionUpdate(u, pk, b)
    \/ \E u \in Graders, pk \in DOMAIN submissions, b \in SubmissionBodies :
          SubmissionPartialUpdate(u, pk, b)
    \/ \E u \in Graders, pk \in DOMAIN submissions : SubmissionDestroy(u, pk)
    \/ \E u \in Graders, pk \in DOMAIN submissions, b \in SubmissionBodies :
          SubmissionGrade(u, pk, b)
    \/ \E c \in DOMAIN courses : Enroll("s2", c)

SpecSubmission == Init /\ [][NextSubmission]_vars

\* the grade requests, with every body over assignment, score and comment
NextGrade ==
    \E u \in Graders, pk \in DOMAIN submissions, b \in GradeBodies : SubmissionGrade(u, pk, b)

SpecGrade == Init /\ [][NextGrade]_vars

\* enroll requests served by parallel workers
NextEnroll ==
    \/ \E u \in Users, c \in DOMAIN courses : EnrollCheck(u, c)
    \/ \E r \in BagToSet(inflight) : EnrollCommit(r)

SpecEnroll == Init /\ [][NextEnroll]_vars

\* request bodies of the course requests: a full valid body, a full body
\* with price 0, and partial bodies with a valid and an invalid price
CourseBodies ==
    {CourseBody(2000, 5, "intermediate", "business", TRUE),
     CourseBody(0, 5, "intermediate", "business", TRUE),
     [price |-> 2000], [price |-> 0]}

CourseCallers == {"t1", "t2", "s1", Anonymous}

\* the mutating handlers of CourseViewSet, one request at a time
NextCourse ==
    \/ \E u \in CourseCallers, b \in CourseBodies : CourseCreate(u, b)
    \/ \E u \in CourseCallers, pk \in DOMAIN courses, b \in CourseBodies : CourseUpdate(u, pk, b)
    \/ \E u \in CourseCallers, pk \in DOMAIN courses, b \in CourseBodies :
          CoursePartialUpdate(u, pk, b)
    \/ \E u \in CourseCallers, pk \in DOMAIN courses : CourseDestroy(u, pk)
    \/ \E c \in DOMAIN courses : Enroll("s2", c)

SpecCourse == Init /\ [][NextCourse]_vars

\* Lesson saves through the serializer, one at a time
NextLesson ==
    \/ \E b \in LessonBodies : LessonCreate(b)
    \/ \E pk \in DOMAIN lessons, b \in LessonBodies : LessonUpdate(pk, b)
    \/ \E pk \in DOMAIN lessons, b \in LessonBodies : LessonPartialUpdate(pk, b)

SpecLesson == Init /\ [][NextLesson]_vars

\* concurrent creates of Lessons: check and insert are separate steps
NextLessonRace ==
    \/ \E b \in LessonBodies : LessonCreateCheck(b)
    \/ \E b \in LessonBodies : LessonCreateCommit(b)

SpecLessonRace == Init /\ [][NextLessonRace]_vars

\* the progress read over every catalog
NextProgress == \E u \in Students, pk \in DOMAIN courses : CourseProgress(u, pk)

SpecProgress == InitProgress /\ [][NextProgress]_vars

\* the compound filter over every catalog
NextQuery == \E u \in {"s1", Anonymous} : q_courses_complex(u)

SpecQuery == InitQuery /\ [][NextQuery]_vars

\* course writes with bodies that break the constraints, and the free listing
NextValidation ==
    \/ \E u \in ValidationCallers, b \in ValidationBodies : CourseCreate(u, b)
    \/ \E u \in ValidationCallers, pk \in DOMAIN courses, b \in ValidationBodies :
          CourseUpdate(u, pk, b)
    \/ \E u \in ValidationCallers, pk \in DOMAIN courses, b \in ValidationBodies :
          CoursePartialUpdate(u, pk, b)
    \/ \E u \in ValidationCallers : free(u)

SpecValidation == InitValidation /\ [][NextValidation]_vars

Next == NextSubmission \/ NextGrade \/ NextEnroll \/ NextCourse
            \/ NextLesson \/ NextLessonRace \/ NextProgress
            \/ NextQuery \/ NextValidation

Spec == Init /\ [][Next]_vars

(***************************************************************************)
(* Properties.                                                             *)
(***************************************************************************)
\* the teacher of the Course reached via submission.assignment.lesson.course
TeacherOfSubmission(pk) ==
    courses[lessons[assignments[submissions[pk].assignment].lesson].course].teacher

\* max_score of the Assignment a submission row belongs to
MaxScoreOf(row) == assignments[row.assignment].max_score

Forbidden(r) == r.status = HTTP_403_FORBIDDEN

ValidationError(r) ==
    r.status = HTTP_400_BAD_REQUEST /\ r.errors # {} /\ "detail" \notin r.errors

Conflict(r) == r.status = HTTP_400_BAD_REQUEST /\ r.errors = {"detail"}

Succeeded(r) == r.status \in {HTTP_200_OK, HTTP_201_CREATED, HTTP_204_NO_CONTENT}

\* C1: after a successful grade the graded Submission has
\* 0 <= score <= max_score of the Assignment it belongs to in the resulting state.
C1_GradedScoreWithinMax ==
    (resp.op = "grade" /\ Succeeded(resp)) =>
        /\ 0 <= submissions[resp.pk].score
        /\ submissions[resp.pk].score <= MaxScoreOf(submissions[resp.pk])

\* C2: a grade succeeds only for the teacher of the submission's course; for
\* every other caller it is Forbidden and score, teacher_comment and status
\* of the submission stay as they were.
C2_GradeOnlyByCourseTeacher ==
    [][resp'.op = "grade" =>
        LET pk == resp'.pk
        IN  /\ Succeeded(resp') => resp'.user = TeacherOfSubmission(pk)
            /\ resp'.user # TeacherOfSubmission(pk) =>
                 /\ Forbidden(resp')
                 /\ submissions'[pk].score = submissions[pk].score
                 /\ submissions'[pk].teacher_comment = submissions[pk].teacher_comment
                 /\ submissions'[pk].status = submissions[pk].status]_vars

\* a grade by a caller who is not the course's teacher was refused and the
\* submission is still as submitted
C2_Witness ==
    /\ resp.op = "grade"
    /\ Forbidden(resp)
    /\ resp.pk \in DOMAIN submissions
    /\ resp.user # TeacherOfSubmission(resp.pk)
    /\ submissions[resp.pk].status = "pending"
    /\ submissions[resp.pk].score = SubmissionDefaultScore

\* C3: a generic update or partial update of a Submission by a caller who is
\* not the teacher of its course changes neither score nor teacher_comment,
\* and a successful one leaves 0 <= score <= max_score.
C3_GenericUpdateChecksOwnership ==
    [][resp'.op \in {"update", "partial_update"} =>
        LET pk == resp'.pk
        IN  /\ resp'.user # TeacherOfSubmission(pk) =>
                 /\ submissions'[pk].score = submissions[pk].score
                 /\ submissions'[pk].teacher_comment = submissions[pk].teacher_comment
            /\ Succeeded(resp') =>
                 /\ 0 <= submissions'[pk].score
                 /\ submissions'[pk].score <= assignments'[submissions'[pk].assignment].max_score]_vars

\* C4: a submit carrying an assignment and an answer succeeds exactly when the
\* caller is enrolled in the assignment's course; on success one Submission
\* of the caller is added, pending, with score 0; otherwise it is Forbidden
\* and nothing is added.
C4_SubmitIffEnrolled ==
    [][resp'.op = "create" =>
        \A b \in SubmissionBodies :
            (DOMAIN b = {"assignment", "answer"} /\ SubmissionCreate(resp'.user, b)) =>
                LET enrolled == \E e \in BagToSet(enrollments) :
                                    /\ e.student = resp'.user
                                    /\ e.course = lessons[assignments[b.assignment].lesson].course
                IN  IF enrolled
                      THEN /\ Succeeded(resp')
                           /\ Cardinality(DOMAIN submissions') = Cardinality(DOMAIN submissions) + 1
                           /\ \E pk \in DOMAIN submissions' \ DOMAIN submissions :
                                 /\ submissions'[pk].student = resp'.user
                                 /\ submissions'[pk].status = "pending"
                                 /\ submissions'[pk].score = 0
                      ELSE /\ Forbidden(resp')
                           /\ submissions' = submissions]_vars

\* C5: at most one Enrollment per (student, course) in every reachable state,
\* whatever the interleaving of the checks and inserts of the enroll
\* requests; an enroll succeeds only when the pair was not stored.
C5_EnrollmentUnique ==
    /\ [](\A u \in Users, c \in DOMAIN courses :
            \A S \in SUBSET BagToSet(enrollments) :
                (\A e \in S : e.student = u /\ e.course = c) =>
                    /\ Cardinality(S) <= 1
                    /\ \A e \in S : CopiesIn(e, enrollments) = 1)
    /\ [][(resp'.op = "enroll" /\ Succeeded(resp') /\ enrollments' # enrollments) =>
            ~\E e \in BagToSet(enrollments) :
                e.student = resp'.user /\ e.course = resp'.pk]_vars

\* two requests for one pair both passed the existence check; the first
\* insert stored the row and the second was refused by the store
C5_Witness ==
    /\ resp.op = "enroll"
    /\ resp.status = HTTP_500_SERVER_ERROR
    /\ inflight = EmptyBag
    /\ \E e \in BagToSet(enrollments) :
          /\ e.student = resp.user /\ e.course = resp.pk
          /\ CopiesIn(e, enrollments) = 1

\* C6: an enroll for a pair that is not stored adds exactly one Enrollment
\* with progress 0 and completed_at null and leaves the others as they
\* were; for a stored pair it fails with Conflict and changes nothing.
C6_EnrollCreatesOrConflicts ==
    [][resp'.op = "enroll" =>
        LET u == resp'.user
            c == resp'.pk
            stored == \E e \in BagToSet(enrollments) : e.student = u /\ e.course = c
            row == [student |-> u, course |-> c, progress |-> 0, completed_at |-> NoneVal]
        IN  IF stored
              THEN Conflict(resp') /\ enrollments' = enrollments
              ELSE /\ Succeeded(resp')
                   /\ enrollments' = enrollments (+) SetToBag({row})
                   /\ BagCardinality(enrollments') = BagCardinality(enrollments) + 1]_vars

\* a second enroll of an enrolled student was answered with Conflict
C6_Witness ==
    /\ resp.op = "enroll"
    /\ Conflict(resp)
    /\ resp.user = "s2"
    /\ CopiesIn([student |-> "s2", course |-> resp.pk, progress |-> 0,
                 completed_at |-> NoneVal], enrollments) = 1

\* C7: a Submission starts pending; its status changes only in a successful
\* grade of that submission, and only to checked; a successful grade leaves
\* it checked whatever it was; a checked submission stays checked.
C7_StatusOnlyByGrade ==
    /\ \A pk \in DOMAIN submissions : submissions[pk].status = "pending"
    /\ [][/\ \A pk \in DOMAIN submissions' \ DOMAIN submissions :
                submissions'[pk].status = "pending"
          /\ \A pk \in DOMAIN submissions \cap DOMAIN submissions' :
                /\ submissions'[pk].status # submissions[pk].status =>
                      /\ resp'.op = "grade" /\ Succeeded(resp') /\ resp'.pk = pk
                      /\ submissions'[pk].status = "checked"
                /\ submissions[pk].status = "checked" => submissions'[pk].status = "checked"
                /\ submissions'[pk].status # "late"
          /\ (resp'.op = "grade" /\ Succeeded(resp')) =>
                submissions'[resp'.pk].status = "checked"]_vars

\* one submission was graded and is checked while the other, touched by
\* other requests only, is still pending
C7_Witness ==
    /\ resp.op = "grade"
    /\ Succeeded(resp)
    /\ DOMAIN submissions = {1, 2}
    /\ submissions[resp.pk].status = "checked"
    /\ \E other \in DOMAIN submissions \ {resp.pk} :
          /\ submissions[other].status = "pending"
          /\ submissions[other].score # SubmissionDefaultScore

\* C8: a grade by the course's teacher whose score is above max_score or
\* below 0 fails with ValidationError and leaves the submission as it was;
\* one whose score equals max_score succeeds and stores that score.
C8_GradeScoreBound ==
    [][(resp'.op = "grade" /\ resp'.user = TeacherOfSubmission(resp'.pk)) =>
        LET pk  == resp'.pk
            max == MaxScoreOf(submissions[pk])
        IN  \A b \in GradeBodies :
                (/\ Has(b, "score")
                 /\ ~b.score.null
                 /\ SubmissionGrade(resp'.user, pk, b)) =>
                    /\ (b.score.v > max \/ b.score.v < 0) =>
                          /\ ValidationError(resp')
                          /\ submissions' = submissions
                    /\ b.score.v = max =>
                          /\ Succeeded(resp')
                          /\ submissions'[pk].score = max
                          /\ submissions'[pk].status = "checked"]_vars

\* the course's teacher sent a score out of range: the request was refused
\* on the score field and the submission is still pending with its score
C8_Witness ==
    /\ resp.op = "grade"
    /\ resp.pk \in DOMAIN submissions
    /\ resp.user = TeacherOfSubmission(resp.pk)
    /\ ValidationError(resp)
    /\ resp.errors = {"score"}
    /\ submissions[resp.pk].status = "pending"
    /\ submissions[resp.pk].score = SubmissionDefaultScore

\* C9: update, partial update and delete of a Course succeed only for its
\* owning teacher; for any other caller they are Forbidden and the course,
\* its lessons, assignments, enrollments and submissions are unchanged.
C9_CourseWriteOnlyByOwner ==
    [][resp'.op \in {"update_course", "partial_update_course", "destroy_course"} =>
        LET owner == courses[resp'.pk].teacher
        IN  /\ Succeeded(resp') => resp'.user = owner
            /\ resp'.user # owner =>
                 /\ Forbidden(resp')
                 /\ UNCHANGED <<courses, lessons, assignments, enrollments, submissions>>]_vars

\* a delete by a teacher who does not own the course was refused and the
\* course still has its lesson, assignment, submission and enrollment
C9_Witness ==
    /\ resp.op = "destroy_course"
    /\ Forbidden(resp)
    /\ resp.pk \in DOMAIN courses
    /\ is_teacher(resp.user)
    /\ courses[resp.pk].teacher # resp.user
    /\ \E l \in DOMAIN lessons : lessons[l].course = resp.pk
    /\ \E sub \in DOMAIN submissions :
          lessons[assignments[submissions[sub].assignment].lesson].course = resp.pk
    /\ \E e \in BagToSet(enrollments) : e.course = resp.pk

\* C10: a course creation succeeds only for a caller whose role is teacher
\* and the created course's teacher is the caller; any other caller gets
\* Forbidden and no course is created; no request changes a course's teacher.
C10_CreateOnlyByTeacher ==
    [][/\ resp'.op = "create_course" =>
            /\ Succeeded(resp') =>
                 /\ resp'.user \in Users /\ role(resp'.user) = "teacher"
                 /\ courses'[resp'.pk].teacher = resp'.user
            /\ ~(resp'.user \in Users /\ role(resp'.user) = "teacher") =>
                 /\ Forbidden(resp')
                 /\ courses' = courses
       /\ \A pk \in DOMAIN courses \cap DOMAIN courses' :
            courses'[pk].teacher = courses[pk].teacher]_vars

\* C11: Lessons of one Course have pairwise distinct serial numbers in every
\* state reached by Lesson creates and updates that pass the validator, for
\* every serial number the field admits, 0 included.
C11_SerialNumbersDistinct ==
    \A l1, l2 \in DOMAIN lessons :
        (l1 # l2 /\ lessons[l1].course = lessons[l2].course) =>
            lessons[l1].serial_number # lessons[l2].serial_number

\* C12: no interleaving of the checks and inserts of concurrent Lesson
\* creates stores two Lessons with the same course and serial number.
C12_ConcurrentCreateUnique ==
    \A c \in LessonCoursePks, n \in SerialNumbers :
        Cardinality({l \in DOMAIN lessons :
                        lessons[l].course = c /\ lessons[l].serial_number = n}) <= 1

\* every Lesson, Assignment, Enrollment, Submission and Progress row references
\* a stored parent
ReferencesExist ==
    /\ \A l \in DOMAIN lessons : lessons[l].course \in DOMAIN courses
    /\ \A a \in DOMAIN assignments : assignments[a].lesson \in DOMAIN lessons
    /\ \A e \in BagToSet(enrollments) : e.course \in DOMAIN courses
    /\ \A x \in DOMAIN submissions : submissions[x].assignment \in DOMAIN assignments
    /\ \A p \in DOMAIN progress : progress[p].lesson \in DOMAIN lessons

\* C13: after a successful delete of a Course no Lesson, Assignment,
\* Enrollment, Submission or Progress row that referenced it directly or
\* transitively remains, the rows of every other Course are as they were,
\* and in every reachable state each row references a stored parent.
C13_DeleteCascades ==
    /\ []ReferencesExist
    /\ [][(resp'.op = "destroy_course" /\ Succeeded(resp')) =>
            LET c == resp'.pk
                ls == {l \in DOMAIN lessons : lessons[l].course = c}
                as == {a \in DOMAIN assignments : assignments[a].lesson \in ls}
            IN  /\ c \notin DOMAIN courses'
                /\ courses' = Restrict(courses, DOMAIN courses \ {c})
                /\ lessons' = Restrict(lessons, DOMAIN lessons \ ls)
                /\ assignments' = Restrict(assignments, DOMAIN assignments \ as)
                /\ \A x \in DOMAIN submissions :
                      IF submissions[x].assignment \in as
                        THEN x \notin DOMAIN submissions'
                        ELSE x \in DOMAIN submissions' /\ submissions'[x] = submissions[x]
                /\ DOMAIN submissions' \subseteq DOMAIN submissions
                /\ \A p \in DOMAIN progress :
                      IF progress[p].lesson \in ls
                        THEN p \notin DOMAIN progress'
                        ELSE p \in DOMAIN progress' /\ progress'[p] = progress[p]
                /\ DOMAIN progress' \subseteq DOMAIN progress
                /\ \A e \in BagToSet(enrollments) \cup BagToSet(enrollments') :
                      CopiesIn(e, enrollments') =
                          IF e.course = c THEN 0 ELSE CopiesIn(e, enrollments)]_vars

\* course 1 was deleted by its teacher with its lesson, assignment,
\* submission, enrollment and progress rows; those of course 2 are stored
C13_Witness ==
    /\ resp.op = "destroy_course"
    /\ Succeeded(resp)
    /\ resp.pk = 1
    /\ resp.user = "t1"
    /\ DOMAIN lessons = {2}
    /\ DOMAIN assignments = {2}
    /\ DOMAIN submissions = {2}
    /\ DOMAIN progress = {2}
    /\ BagToSet(enrollments) = {EnrollmentRow("s1", 2)}

\* the Lessons of the Course the last progress response is about
C14_Lessons == {l \in DOMAIN lessons : lessons[l].course = resp.pk}

\* those of them the caller has a Progress row with completed = true for
C14_Completed ==
    {l \in C14_Lessons : \E p \in DOMAIN progress :
        /\ progress[p].student = resp.user
        /\ progress[p].lesson = l
        /\ progress[p].completed}

\* C14 as stated: the progress percent of a student in a Course equals
\* (completed Lessons of the student in the Course) / (Lessons of the
\* Course) x 100 exactly, and 0 for a Course without Lessons.
C14_PercentExact ==
    resp.op = "progress" =>
        LET n == Cardinality(C14_Lessons)
            k == Cardinality(C14_Completed)
        IN  IF n = 0 THEN payload.progress = 0
            ELSE payload.progress * n = k * 100 * Hundredths

\* C14: the progress percent of a student in a Course is (completed Lessons
\* of the student in the Course) / (Lessons of the Course) x 100 rounded to
\* two decimals, and 0 for a Course without Lessons: 0 with no completed
\* Lesson, 100 with every Lesson completed, never above 100, whatever the
\* Progress rows of other students and of other Courses' Lessons.
C14_PercentRounded ==
    resp.op = "progress" =>
        LET n == Cardinality(C14_Lessons)
            k == Cardinality(C14_Completed)
            d == payload.progress * n - k * 100 * Hundredths
        IN  /\ payload.total_lessons = n
            /\ payload.completed_lessons = k
            /\ n = 0 => payload.progress = 0
            /\ n > 0 => (2 * d <= n /\ -2 * d <= n)
            /\ k = 0 => payload.progress = 0
            /\ (n > 0 /\ k = n) => payload.progress = 100 * Hundredths
            /\ payload.progress <= 100 * Hundredths

\* one of three Lessons of the Course is completed by the caller, the other
\* student completed a Lesson too, and the response says 33.33
C14_Witness ==
    /\ resp.op = "progress"
    /\ Cardinality(C14_Lessons) = 3
    /\ Cardinality(C14_Completed) = 1
    /\ \E p \in DOMAIN progress : progress[p].student # resp.user /\ progress[p].completed
    /\ payload.progress = 3333

\* the number of students enrolled in a Course
C15_EnrollmentCount(c) ==
    Cardinality({e \in BagToSet(enrollments) : e.course = c})

C16_Valid(row) ==
    /\ row.price > 0
    /\ row.duration > 0
    /\ row.level \in {"beginner", "intermediate", "advanced"}
    /\ row.category \in {"programming", "design", "marketing", "business"}

\* the body carries a value that breaks one of the four constraints
C16_Violates(b) ==
    \/ Has(b, "price") /\ b.price <= 0
    \/ Has(b, "duration") /\ b.duration <= 0
    \/ Has(b, "level") /\ b.level \notin {"beginner", "intermediate", "advanced"}
    \/ Has(b, "category") /\ b.category \notin {"programming", "design", "marketing", "business"}

\* the step is the course write named by the response, made with body b
C16_WriteWith(b) ==
    \/ resp'.op = "create_course" /\ CourseCreate(resp'.user, b)
    \/ resp'.op = "update_course" /\ CourseUpdate(resp'.user, resp'.pk, b)
    \/ resp'.op = "partial_update_course" /\ CoursePartialUpdate(resp'.user, resp'.pk, b)

\* the caller passes the ownership check of the write (a create has none)
C16_Permitted ==
    resp'.op = "create_course" \/ courses[resp'.pk].teacher = resp'.user

\* C16 as stated: every Course created or modified by an API create, update
\* or partial update has price > 0, duration > 0, level and category among
\* their choices; a request that breaks one of these fails with
\* ValidationError and leaves the Course unchanged (so that no such Course
\* is in the free listing).
C16_WrittenCoursesValid ==
    [][\A b \in ValidationBodies : C16_WriteWith(b) =>
             /\ Succeeded(resp') => C16_Valid(courses'[resp'.pk])
             /\ (C16_Violates(b) /\ C16_Permitted) =>
                   ValidationError(resp') /\ courses' = courses]_vars

\* C16: every value an API create, update or partial update of a Course
\* stores satisfies price > 0, duration > 0, level and category among their
\* choices: a created or fully updated Course satisfies them all, a partial
\* update leaves the fields it does not supply as they were, and a Course
\* that satisfied them keeps doing so; a request that breaks one of them
\* (a partial update with only the offending field included) fails with
\* ValidationError and leaves the Course unchanged; so the free listing
\* holds only Courses whose price 0 was stored outside these operations.
C16_WrittenValuesValid ==
    /\ [](\A c \in DOMAIN courses : courses[c].price = 0 => c = 2)
    /\ [][/\ \A b \in ValidationBodies : C16_WriteWith(b) =>
               /\ Succeeded(resp') =>
                     /\ ~C16_Violates(b)
                     /\ \A f \in DOMAIN b : courses'[resp'.pk][f] = b[f]
                     /\ resp'.op # "partial_update_course" => C16_Valid(courses'[resp'.pk])
                     /\ resp'.op = "partial_update_course" =>
                           \A f \in CourseWritableFields \ DOMAIN b :
                               courses'[resp'.pk][f] = courses[resp'.pk][f]
               /\ (C16_Violates(b) /\ C16_Permitted) =>
                     ValidationError(resp') /\ courses' = courses
          /\ \A c \in DOMAIN courses : C16_Valid(courses[c]) => C16_Valid(courses'[c])
          /\ resp'.op = "free" =>
                payload' = {c \in DOMAIN courses : courses[c].price = 0}]_vars

\* the owner's partial update that carried only a price of 0 was refused on
\* the price, next to a Course created through the API
C16_Witness ==
    /\ resp.op = "partial_update_course"
    /\ ValidationError(resp)
    /\ resp.errors = {"price"}
    /\ resp.user = courses[resp.pk].teacher
    /\ courses[resp.pk].price = 1000
    /\ 3 \in DOMAIN courses
    /\ C16_Valid(courses[3])

\* C17: a successful grade changes only score, teacher_comment and status of
\* the graded Submission: its answer, assignment and student are as before,
\* whatever fields the body carries, and no other Submission is modified.
C17_GradeChangesOnlyGrading ==
    [][(resp'.op = "grade" /\ Succeeded(resp')) =>
        LET pk == resp'.pk
        IN  /\ DOMAIN submissions' = DOMAIN submissions
            /\ submissions'[pk].answer = submissions[pk].answer
            /\ submissions'[pk].assignment = submissions[pk].assignment
            /\ submissions'[pk].student = submissions[pk].student
            /\ \A other \in DOMAIN submissions \ {pk} :
                  submissions'[other] = submissions[other]]_vars

====
